---- MODULE Spec2Model ----
(***************************************************************************)
(* QS/C++ port to the POSIX API (qpcpp/ports/posix/qs_port.cpp): the TCP   *)
(* connection held in l_sock, the transmit pump (QS::onFlush, QS_output),  *)
(* the receive poll (QS_rx_input) and the lifecycle hooks (QS::onStartup,  *)
(* QS::onCleanup).  One consumer thread runs the operations one at a time; *)
(* a producer appends trace bytes to the transmit ring buffer.             *)
(***************************************************************************)
EXTENDS Integers, Sequences, FiniteSets, TLC

\* ---- bounds of the model ------------------------------------------------
MaxBytes == 3        \* trace bytes the producer appends in one behaviour
MaxWouldBlock == 2   \* would-block results the socket gives on one chunk
MaxFd == 2           \* descriptors the process may hold open
MaxCand == 2         \* candidate addresses returned by getaddrinfo
MaxHost == 2         \* length of the short host names tried
MaxOver == 2         \* characters by which a host name may exceed the buffer
MaxSec == 1          \* seconds of the clock values tried
MaxRecv == 1         \* bytes one recv() returns

\* ---- program constants --------------------------------------------------
QS_TX_SIZE == 8192
QS_RX_SIZE == 2048
QS_TX_CHUNK == QS_TX_SIZE
HOSTNAME_SIZE == 128         \* char hostName[128]
TICKS_PER_SEC == 10000000    \* units of 0.1 microsecond in a second
QS_TIME_SIZE == 2            \* bytes of QSTimeCtr (1, 2 or 4 by configuration)
INVALID_SOCKET == -1
SOCKET_ERROR == -1

\* uint16_t arithmetic of nBytes
U16(x) == x % 65536

VARIABLES
    l_sock,        \* static int l_sock
    openFds,       \* descriptors opened and not yet closed
    dblClose,      \* close() was called on a descriptor that was not open
    nonblock,      \* O_NONBLOCK was set on the descriptor held in l_sock
    ring,          \* bytes in the QS transmit ring buffer, oldest first
    nextByte,      \* label of the next byte the producer appends
    crit,          \* the QS critical section is held
    critErr,       \* the critical section was entered while held / exited while free
    pc,            \* position of the consumer thread
    op,            \* operation the consumer thread called last
    fn,            \* pump function whose body runs: "onFlush" or "QS_output"
    chunk,         \* block handed out by the last getBlock
    data,          \* local data, as an offset into chunk
    nBytes,        \* local nBytes
    nSent,         \* result of the last send()
    errno,         \* errno left by the last failed send() of this invocation
    callOff,       \* offset argument of the last send() on this chunk
    callLen,       \* length argument of the last send() on this chunk
    nWouldBlock,   \* would-block results seen on this chunk
    nGetBlock,     \* getBlock calls of this invocation
    fetched,       \* bytes handed out by getBlock in this invocation
    accepted,      \* bytes accepted by the socket in this invocation
    nDiag,         \* diagnostics written to stderr in this invocation
    lastDiag,      \* the last diagnostic of this invocation
    flushRet,      \* how the pump function of this invocation returned
    startRet,      \* return value of onStartup in this invocation
    cands,         \* candidate addresses of this onStartup
    connIdx,       \* candidate this onStartup connected to (0: none)
    sockAtEntry,   \* l_sock when this invocation began
    openedNow,     \* descriptors this onStartup opened that are still open
    nClose,        \* close() calls of this invocation
    rxHead,        \* QS::rxPriv_.head
    rxTail,        \* QS::rxPriv_.tail
    rxEnd,         \* QS::rxPriv_.end
    nRecv,         \* recv() calls of this invocation
    nParse,        \* rxParse calls of this invocation
    badIO,         \* send()/recv() calls of this invocation made on INVALID_SOCKET
    stream,        \* bytes the socket accepted since the last byte was lost
    lostMax,       \* last byte dropped unsent, by a hard send error or by
                   \* initBuf (0: none)
    optFail,       \* a setsockopt() of this onStartup failed
    status,        \* result of the recv() of this QS_rx_input
    parseSpan,     \* <<tail, head>> that rxParse found when it was invoked
    arg,           \* argument of QS::onStartup whose endpoint is parsed
    hostName,      \* char hostName[128], up to its terminating zero
    serviceName,   \* the string serviceName points to
    parseDone,     \* the endpoint of arg has been parsed
    tspec,         \* clock read by the last QS::onGetTime, as [sec, nsec]
    prevTspec,     \* clock read by the QS::onGetTime before it
    time,          \* value returned by the last QS::onGetTime (-1: none)
    prevTime       \* value returned by the QS::onGetTime before it (-1: none)

sockVars == <<l_sock, openFds, dblClose, nonblock>>
bufVars  == <<ring, nextByte>>
critVars == <<crit, critErr>>
pumpVars == <<chunk, data, nBytes, nSent, errno, callOff, callLen, nWouldBlock>>
callVars == <<sockAtEntry, nGetBlock, fetched, accepted>>
histVars == <<callVars, nDiag, lastDiag, flushRet, startRet, cands, connIdx,
              openedNow, nClose, nRecv, nParse, badIO>>
rxVars   == <<rxHead, rxTail, rxEnd>>
monVars  == <<stream, lostMax, optFail, status, parseSpan>>
parseVars == <<arg, hostName, serviceName, parseDone>>
timeVars == <<tspec, prevTspec, time, prevTime>>
pureVars == <<parseVars, timeVars>>
mainVars == <<sockVars, bufVars, critVars, pc, op, fn, pumpVars, histVars,
              rxVars, monVars>>
vars == <<mainVars, pureVars>>

Fds == 1..MaxFd

\* ---- descriptors --------------------------------------------------------
\* the socket state threaded through the lifecycle code
SockState == [sock |-> l_sock, open |-> openFds, dbl |-> dblClose,
              nb |-> nonblock, idx |-> 0, mine |-> {}, closes |-> 0]

\* socket(): the lowest free descriptor, or INVALID_SOCKET when creation fails
socket(cand, open) ==
    IF cand.sock /\ (Fds \ open) # {}
    THEN CHOOSE fd \in Fds \ open : \A g \in Fds \ open : fd <= g
    ELSE INVALID_SOCKET

\* close(fd)
close(s, fd) ==
    [s EXCEPT !.open = @ \ {fd},
              !.mine = @ \ {fd},
              !.closes = @ + 1,
              !.dbl  = @ \/ (fd \notin s.open)]

\* QS::onCleanup without the reset of l_sock
onCleanup_keepsHandle(s) ==
    IF s.sock # INVALID_SOCKET THEN close(s, s.sock) ELSE s

\* QS::onCleanup
onCleanupBody(s) ==
    IF s.sock # INVALID_SOCKET
    THEN [close(s, s.sock) EXCEPT !.sock = INVALID_SOCKET, !.nb = FALSE]
    ELSE s

\* QS_EXIT(): the macro of qs.hpp that calls QS::onCleanup
QS_EXIT(s) == onCleanupBody(s)

\* ---- QS::onStartup ------------------------------------------------------
\* a candidate address: whether socket() and connect() succeed on it
Cand == {c \in [sock : BOOLEAN, conn : BOOLEAN] : c.conn => c.sock}

\* the non-empty address lists getaddrinfo may return; the list is cut after
\* its first connectable address, the last one the loop can come to
CandLists ==
    {cl \in UNION {[1..n -> Cand] : n \in 1..MaxCand} :
        \A i \in 1..(Len(cl) - 1) : ~cl[i].conn}

\* the loop over the resolved addresses
RECURSIVE candidateLoop(_, _, _)
candidateLoop(cl, i, s) ==
    IF i > Len(cl) THEN s
    ELSE LET fd == socket(cl[i], s.open)
             s1 == IF fd # INVALID_SOCKET
                   THEN [s EXCEPT !.sock = fd, !.nb = FALSE,
                                  !.open = @ \cup {fd}, !.mine = @ \cup {fd}]
                   ELSE [s EXCEPT !.sock = INVALID_SOCKET, !.nb = FALSE]
         IN  IF fd # INVALID_SOCKET
             THEN IF ~cl[i].conn
                  THEN [close(s1, fd) EXCEPT !.sock = INVALID_SOCKET]  \* break
                  ELSE [s1 EXCEPT !.idx = i]                           \* break
             ELSE candidateLoop(cl, i + 1, s1)

\* what the system calls of one onStartup do: getaddrinfo fails, or it returns
\* the list cl and fcntl succeeds ("ok") or fails at F_GETFL or at F_SETFL;
\* sockopt tells whether the two setsockopt() calls succeed
StartupEnvs ==
    {[gai |-> FALSE, cl |-> <<>>, fcntl |-> "ok", sockopt |-> TRUE]}
    \cup {[gai |-> TRUE, cl |-> cl, fcntl |-> f, sockopt |-> TRUE] :
            cl \in CandLists, f \in {"ok", "F_GETFL", "F_SETFL"}}
    \cup {[gai |-> TRUE, cl |-> cl, fcntl |-> "ok", sockopt |-> FALSE] :
            cl \in CandLists}

\* the configuration of the connected socket, O_NONBLOCK never set
configureSocket_blocking(e, s1) ==
    [s |-> s1, diag |-> "none", ok |-> TRUE, optFail |-> ~e.sockopt]

\* the configuration of the connected socket: non-blocking mode through
\* fcntl(), then the two setsockopt() calls, whose results are not read
configureSocket(e, s1) ==
    IF e.fcntl = "F_GETFL"
    THEN [s |-> QS_EXIT(s1), diag |-> "Socket configuration failed",
          ok |-> FALSE, optFail |-> FALSE]
    ELSE IF e.fcntl = "F_SETFL"
    THEN [s |-> QS_EXIT(s1), diag |-> "Failed to set non-blocking socket",
          ok |-> FALSE, optFail |-> FALSE]
    ELSE [s |-> [s1 EXCEPT !.nb = TRUE], diag |-> "none", ok |-> TRUE,
          optFail |-> ~e.sockopt]

\* resolution, connection and configuration of the socket, up to the flush
onStartupBody(e, s) ==
    IF ~e.gai
    THEN [s |-> s, diag |-> "cannot resolve host", ok |-> FALSE,
          optFail |-> FALSE]
    ELSE LET s1 == candidateLoop(e.cl, 1, s) IN
         IF s1.sock = INVALID_SOCKET
         THEN [s |-> s1, diag |-> "cannot connect to QSPY", ok |-> FALSE,
               optFail |-> FALSE]
         ELSE configureSocket(e, s1)

\* ---- QS::onStartup: the endpoint -----------------------------------------
\* the literals "localhost" and "6601"
DefaultHost == <<"l", "o", "c", "a", "l", "h", "o", "s", "t">>
DefaultService == <<"6", "6", "0", "1">>

\* the loop that copies the host name: from src[i] on, up to the end of the
\* string, a ':' or a full buffer (one place is kept for the zero)
RECURSIVE copyHost(_, _, _)
copyHost(src, i, dst) ==
    IF i <= Len(src) /\ src[i] # ":" /\ Len(dst) < HOSTNAME_SIZE - 1
    THEN copyHost(src, i + 1, Append(dst, src[i]))
    ELSE [dst |-> dst, i |-> i]

\* the service name taken with its ':'
serviceAt_keepsColon(src, i) ==
    IF i <= Len(src) /\ src[i] = ":"
    THEN SubSeq(src, i, Len(src)) ELSE DefaultService

\* serviceName once the copy loop has stopped at src[i]
serviceAt(src, i) ==
    IF i <= Len(src) /\ src[i] = ":"
    THEN SubSeq(src, i + 1, Len(src)) ELSE DefaultService

\* hostName and serviceName that QS::onStartup extracts from its argument a
endpoint(a) ==
    LET src == IF a.null THEN DefaultHost ELSE a.str
        r == copyHost(src, 1, <<>>)
    IN  [host |-> r.dst, service |-> serviceAt(src, r.i)]

\* ---- QS::onGetTime ------------------------------------------------------
\* the number of values of QSTimeCtr
TimeModulus == 2 ^ (8 * QS_TIME_SIZE)

\* the conversion with tv_nsec taken as it is
toTime_nsecAsTicks(ts) == (ts.sec * TICKS_PER_SEC + ts.nsec) % TimeModulus

\* (QSTimeCtr)(tspec.tv_sec * 10000000 + tspec.tv_nsec / 100)
toTime(ts) == (ts.sec * TICKS_PER_SEC + ts.nsec \div 100) % TimeModulus

\* ---- the transmit pump --------------------------------------------------
\* the socket check that opens QS::onFlush and QS_output, without the check
enterPump_unchecked(sock) == "run"

\* the socket check that opens QS::onFlush and QS_output
enterPump(sock) == IF sock = INVALID_SOCKET THEN "invalid" ELSE "run"

\* the send loop's reaction to the result of send(), hard errors retried
afterSend_retriesHardError(nS, err, nB) ==
    IF nS = SOCKET_ERROR THEN "retry"
    ELSE IF nS < nB THEN "advance" ELSE "break"

\* the send loop's reaction to the result of send(), would-block giving up
afterSend_dropsOnWouldBlock(nS, err, nB) ==
    IF nS = SOCKET_ERROR
    THEN IF err = "EWOULDBLOCK" THEN "break" ELSE "abort"
    ELSE IF nS < nB THEN "advance" ELSE "break"

\* the send loop's reaction to the result of send()
afterSend(nS, err, nB) ==
    IF nS = SOCKET_ERROR
    THEN IF err = "EWOULDBLOCK" THEN "retry" ELSE "abort"
    ELSE IF nS < nB THEN "advance" ELSE "break"

\* the adjustment after a short send, resending from the start of the block
advance_keepsData(d, nB, nS) == [data |-> d, nBytes |-> U16(nB - nS)]

\* the adjustment after a short send, nBytes left as it was
advance_keepsLength(d, nB, nS) == [data |-> d + nS, nBytes |-> nB]

\* the adjustment after a short send
advance(d, nB, nS) == [data |-> d + nS, nBytes |-> U16(nB - nS)]

\* the n bytes at offset off of block c (0 for memory outside the block)
Bytes(c, off, n) ==
    [i \in 1..n |-> IF off + i \in 1..Len(c) THEN c[off + i] ELSE 0]

\* the bytes a..b in the order they were produced
Run(a, b) == [i \in 1..(b - a + 1) |-> a + i - 1]

\* QS::getBlock(&nBytes): the lengths of the block it may hand out
getBlock(buf, n) == 1..(IF Len(buf) < n THEN Len(buf) ELSE n)

\* every pump function goes back to getBlock after a chunk
fetchesAgain_always(f) == TRUE

\* after a chunk is sent: QS::onFlush goes back to getBlock (while), QS_output
\* does not (if)
fetchesAgain(f) == f = "onFlush"

\* QS_CRIT_E_() left out: the critical section stays as it was
QS_CRIT_E_missing(c) == c

\* QS_CRIT_E_(): the critical section is held afterwards
QS_CRIT_E_(c) == TRUE

\* QS_CRIT_X_() left out: the critical section stays as it was
QS_CRIT_X_missing(c) == c

\* QS_CRIT_X_(): the critical section is free afterwards
QS_CRIT_X_(c) == FALSE

\* QS_rx_input after recv(), rxParse called before the cursors are set
rxAfterRecv_parsesFirst(st, head, tail) ==
    IF st > 0
    THEN [tail |-> 0, head |-> st, nParse |-> 1, span |-> <<tail, head>>]
    ELSE [tail |-> tail, head |-> head, nParse |-> 0, span |-> <<>>]

\* QS_rx_input after recv(): the cursors, the calls of rxParse and the
\* <<tail, head>> rxParse is invoked on
rxAfterRecv(st, head, tail) ==
    IF st > 0
    THEN [tail |-> 0, head |-> st, nParse |-> 1, span |-> <<0, st>>]
    ELSE [tail |-> tail, head |-> head, nParse |-> 0, span |-> <<>>]

\* the results send() may give for a request of n bytes
SendResults(n) ==
    {[n |-> k, err |-> "none"] : k \in (IF n = 0 THEN {0} ELSE 1..n)}
    \cup {[n |-> SOCKET_ERROR, err |-> "ECONNRESET"]}
    \cup (IF nWouldBlock < MaxWouldBlock
          THEN {[n |-> SOCKET_ERROR, err |-> "EWOULDBLOCK"]} ELSE {})

\* ---- initial state: nothing started, l_sock = INVALID_SOCKET -------------
MainInit ==
    /\ l_sock = INVALID_SOCKET /\ openFds = {} /\ dblClose = FALSE
    /\ nonblock = FALSE
    /\ ring = <<>> /\ nextByte = 1
    /\ crit = FALSE /\ critErr = FALSE
    /\ pc = "idle" /\ op = "none" /\ fn = "none"
    /\ chunk = <<>> /\ data = 0 /\ nBytes = 0 /\ nSent = 0 /\ errno = "none"
    /\ callOff = 0 /\ callLen = 0 /\ nWouldBlock = 0
    /\ sockAtEntry = INVALID_SOCKET /\ nGetBlock = 0
    /\ fetched = <<>> /\ accepted = <<>>
    /\ nDiag = 0 /\ lastDiag = "none" /\ flushRet = "none" /\ startRet = "none"
    /\ cands = <<>> /\ connIdx = 0 /\ openedNow = {} /\ nClose = 0
    /\ rxHead = 0 /\ rxTail = 0 /\ rxEnd = 0
    /\ nRecv = 0 /\ nParse = 0 /\ badIO = 0
    /\ stream = <<>> /\ lostMax = 0 /\ optFail = FALSE
    /\ status = 0 /\ parseSpan = <<>>

\* no endpoint is being parsed
ParseIdle ==
    /\ arg = [null |-> TRUE, str |-> <<>>]
    /\ hostName = <<>> /\ serviceName = <<>> /\ parseDone = FALSE

\* the clock is not being read
TimeIdle ==
    /\ tspec = [sec |-> 0, nsec |-> 0] /\ prevTspec = [sec |-> 0, nsec |-> 0]
    /\ time = -1 /\ prevTime = -1

Init == MainInit /\ ParseIdle /\ TimeIdle

\* the consumer thread calls operation o: the records of the call start afresh
Begin(o) ==
    /\ pc = "idle"
    /\ op' = o /\ sockAtEntry' = l_sock
    /\ nGetBlock' = 0 /\ fetched' = <<>> /\ accepted' = <<>>
    /\ chunk' = <<>> /\ data' = 0 /\ nSent' = 0 /\ errno' = "none"
    /\ callOff' = 0 /\ callLen' = 0 /\ nWouldBlock' = 0
    /\ (o # "onStartup") => optFail' = FALSE
    /\ (o # "QS_rx_input") => (status' = 0 /\ parseSpan' = <<>>)
    /\ UNCHANGED pureVars

\* the pump function f starts on socket sock: the check of l_sock, then
\* nBytes = QS_TX_CHUNK and QS_CRIT_E_()
PumpStart(f, sock) ==
    /\ fn' = f
    /\ IF enterPump(sock) = "invalid"
       THEN /\ nDiag' = 1 /\ lastDiag' = "invalid TCP socket"
            /\ flushRet' = "invalid" /\ pc' = "idle"
            /\ nBytes' = 0
            /\ UNCHANGED critVars
       ELSE /\ nDiag' = 0 /\ lastDiag' = "none"
            /\ flushRet' = "none" /\ pc' = "getBlock"
            /\ nBytes' = QS_TX_CHUNK
            /\ crit' = QS_CRIT_E_(crit) /\ critErr' = (critErr \/ crit)

\* the bytes the producer appends while QS::onStartup is between initBuf and
\* the critical section of its flush: none, or the next k
StartupBytes == {Run(nextByte, nextByte + k - 1) : k \in 0..(MaxBytes + 1 - nextByte)}

\* bool QS::onStartup(void const *arg)
onStartup ==
    /\ Begin("onStartup")
    /\ \E e \in StartupEnvs :
         LET r == onStartupBody(e, SockState) IN
         /\ (Fds \ openFds = {}) => \A i \in 1..Len(e.cl) : ~e.cl[i].sock
         /\ l_sock' = r.s.sock /\ openFds' = r.s.open
         /\ dblClose' = r.s.dbl /\ nonblock' = r.s.nb
         /\ cands' = e.cl
         /\ connIdx' = r.s.idx /\ openedNow' = r.s.mine
         /\ nClose' = r.s.closes /\ optFail' = r.optFail
         /\ IF r.ok
            THEN /\ PumpStart("onFlush", r.s.sock)
                 /\ startRet' = "none"
                 /\ \E b \in StartupBytes :
                      ring' = b /\ nextByte' = nextByte + Len(b)
            ELSE /\ nDiag' = 1 /\ lastDiag' = r.diag
                 /\ startRet' = "false" /\ flushRet' = "none"
                 /\ pc' = "idle" /\ fn' = "none" /\ nBytes' = 0
                 /\ ring' = <<>>                     \* initBuf
                 /\ UNCHANGED <<critVars, nextByte>>
    /\ rxHead' = 0 /\ rxTail' = 0 /\ rxEnd' = QS_RX_SIZE   \* rxInitBuf
    /\ nRecv' = 0 /\ nParse' = 0 /\ badIO' = 0
    /\ stream' = (IF ring = <<>> THEN stream ELSE <<>>)
    /\ lostMax' = (IF ring = <<>> THEN lostMax ELSE ring[Len(ring)])

\* void QS::onCleanup(void)
onCleanup ==
    /\ Begin("onCleanup")
    /\ LET s == onCleanupBody(SockState) IN
         /\ l_sock' = s.sock /\ openFds' = s.open
         /\ dblClose' = s.dbl /\ nonblock' = s.nb
         /\ nClose' = s.closes
    /\ pc' = "idle" /\ fn' = "none" /\ nBytes' = 0
    /\ nDiag' = 0 /\ lastDiag' = "none" /\ flushRet' = "none"
    /\ startRet' = "none" /\ cands' = <<>> /\ connIdx' = 0 /\ openedNow' = {}
    /\ nRecv' = 0 /\ nParse' = 0 /\ badIO' = 0
    /\ UNCHANGED <<bufVars, critVars, rxVars, stream, lostMax>>

\* a call of pump function f by the consumer thread
PumpCall(f) ==
    /\ Begin(f)
    /\ PumpStart(f, l_sock)
    /\ startRet' = "none" /\ cands' = <<>> /\ connIdx' = 0 /\ openedNow' = {}
    /\ nClose' = 0 /\ nRecv' = 0 /\ nParse' = 0 /\ badIO' = 0
    /\ UNCHANGED <<sockVars, bufVars, rxVars, stream, lostMax>>

\* void QS::onFlush(void)
onFlush == PumpCall("onFlush")

\* void QS_output(void)
QS_output == PumpCall("QS_output")

\* the pump function returns; onStartup, when it is the caller, returns true
PumpReturn(how) ==
    /\ pc' = "idle" /\ flushRet' = how
    /\ chunk' = <<>> /\ data' = 0 /\ nBytes' = 0 /\ nSent' = 0
    /\ callOff' = 0 /\ callLen' = 0 /\ nWouldBlock' = 0
    /\ startRet' = (IF op = "onStartup" THEN "true" ELSE startRet)

\* data = getBlock(&nBytes), made inside the critical section, and the
\* QS_CRIT_X_() that follows it on either branch
getBlockStep ==
    /\ pc = "getBlock"
    /\ nGetBlock' = nGetBlock + 1
    /\ crit' = QS_CRIT_X_(crit) /\ critErr' = (critErr \/ ~crit)
    /\ IF ring = <<>>
       THEN /\ PumpReturn("ok")
            /\ UNCHANGED <<ring, fetched>>
       ELSE \E k \in getBlock(ring, nBytes) :
            /\ chunk' = SubSeq(ring, 1, k)
            /\ ring' = SubSeq(ring, k + 1, Len(ring))
            /\ data' = 0 /\ nBytes' = k
            /\ fetched' = fetched \o SubSeq(ring, 1, k)
            /\ callOff' = 0 /\ callLen' = 0 /\ nWouldBlock' = 0
            /\ pc' = "send"
            /\ UNCHANGED <<flushRet, startRet, nSent>>
    /\ UNCHANGED <<sockVars, nextByte, op, fn, errno,
                   sockAtEntry, accepted, nDiag, lastDiag, cands,
                   connIdx, openedNow, nClose, nRecv, nParse, badIO, rxVars,
                   monVars, pureVars>>

\* nSent = send(l_sock, data, nBytes, 0) and the branch taken on its result
sendStep ==
    /\ pc = "send"
    /\ \E r \in SendResults(nBytes) :
         /\ errno' = (IF r.n = SOCKET_ERROR THEN r.err ELSE errno)
         /\ accepted' = (IF r.n = SOCKET_ERROR THEN accepted
                         ELSE accepted \o Bytes(chunk, data, r.n))
         /\ stream' = (IF r.n # SOCKET_ERROR
                       THEN stream \o Bytes(chunk, data, r.n)
                       ELSE IF afterSend(r.n, r.err, nBytes) = "abort"
                       THEN <<>> ELSE stream)
         /\ lostMax' = (IF afterSend(r.n, r.err, nBytes) = "abort"
                        THEN chunk[Len(chunk)] ELSE lostMax)
         /\ LET next == afterSend(r.n, r.err, nBytes) IN
            CASE next = "abort" ->
                   /\ nDiag' = nDiag + 1
                   /\ lastDiag' = "sending data over TCP"
                   /\ PumpReturn("sendError")                     \* return
                   /\ UNCHANGED critVars
              [] next = "break" /\ fetchesAgain(fn) ->
                   /\ nBytes' = QS_TX_CHUNK
                   /\ crit' = QS_CRIT_E_(crit) /\ critErr' = (critErr \/ crit)
                   /\ pc' = "getBlock"
                   /\ nSent' = r.n /\ callOff' = data /\ callLen' = nBytes
                   /\ nWouldBlock' = (IF r.err = "EWOULDBLOCK"
                                      THEN nWouldBlock + 1 ELSE nWouldBlock)
                   /\ UNCHANGED <<chunk, data, nDiag, lastDiag, flushRet,
                                  startRet>>
              [] next = "break" /\ ~fetchesAgain(fn) ->
                   /\ PumpReturn("ok")
                   /\ UNCHANGED <<nDiag, lastDiag, critVars>>
              [] OTHER ->
                   /\ pc' = "sleep"                  \* nanosleep(&c_timeout)
                   /\ nSent' = r.n /\ callOff' = data /\ callLen' = nBytes
                   /\ nWouldBlock' = (IF r.err = "EWOULDBLOCK"
                                      THEN nWouldBlock + 1 ELSE nWouldBlock)
                   /\ UNCHANGED <<chunk, data, nBytes, nDiag, lastDiag,
                                  flushRet, startRet, critVars>>
    /\ badIO' = (IF l_sock = INVALID_SOCKET THEN badIO + 1 ELSE badIO)
    /\ UNCHANGED <<sockVars, bufVars, op, fn, sockAtEntry, nGetBlock, fetched,
                   cands, connIdx, openedNow, nClose, nRecv, nParse, rxVars,
                   optFail, status, parseSpan, pureVars>>

\* the backoff sleep ends: after a short send data and nBytes are adjusted,
\* and the loop goes back to send()
wake ==
    /\ pc = "sleep"
    /\ LET a == IF nSent = SOCKET_ERROR
                THEN [data |-> data, nBytes |-> nBytes]
                ELSE advance(data, nBytes, nSent) IN
         /\ data' = a.data /\ nBytes' = a.nBytes
    /\ pc' = "send"
    /\ UNCHANGED <<sockVars, bufVars, critVars, op, fn, chunk, nSent, errno,
                   callOff, callLen, nWouldBlock, histVars, rxVars, monVars,
                   pureVars>>

\* void QS_rx_input(void)
QS_rx_input ==
    /\ Begin("QS_rx_input")
    /\ \E st \in (IF l_sock = INVALID_SOCKET THEN {-1}
                  ELSE -1..(IF rxEnd < MaxRecv THEN rxEnd ELSE MaxRecv)) :
         LET r == rxAfterRecv(st, rxHead, rxTail) IN
         /\ status' = st
         /\ rxTail' = r.tail /\ rxHead' = r.head
         /\ nParse' = r.nParse /\ parseSpan' = r.span
    /\ nRecv' = 1
    /\ badIO' = (IF l_sock = INVALID_SOCKET THEN 1 ELSE 0)
    /\ pc' = "idle" /\ fn' = "none" /\ nBytes' = 0
    /\ nDiag' = 0 /\ lastDiag' = "none" /\ flushRet' = "none"
    /\ startRet' = "none" /\ cands' = <<>> /\ connIdx' = 0 /\ openedNow' = {}
    /\ nClose' = 0
    /\ UNCHANGED <<sockVars, bufVars, critVars, rxEnd, stream, lostMax>>

\* the producer appends one trace byte to the ring buffer, inside its own
\* critical section
produce ==
    /\ ~crit
    /\ rxEnd # 0                      \* the QS buffers have been initialised
    /\ nextByte <= MaxBytes
    /\ Len(ring) < QS_TX_SIZE
    /\ ring' = Append(ring, nextByte)
    /\ nextByte' = nextByte + 1
    /\ UNCHANGED <<sockVars, critVars, pc, op, fn, pumpVars, histVars, rxVars,
                   monVars, pureVars>>

Next ==
    \/ onStartup
    \/ onCleanup
    \/ onFlush
    \/ QS_output
    \/ QS_rx_input
    \/ getBlockStep
    \/ sendStep
    \/ wake
    \/ produce

Spec == Init /\ [][Next]_vars

\* ---- QS::onGetTime, as a function of the clock ---------------------------
\* the values of CLOCK_MONOTONIC_RAW tried: tv_nsec at the ends of its range,
\* around a multiple of 100 and around the first wrap of QSTimeCtr
Clocks ==
    [sec : 0..MaxSec,
     nsec : {0, 99, 100,
             (TimeModulus - 1) * 100, TimeModulus * 100 - 1,
             TimeModulus * 100, (TimeModulus + 1) * 100,
             999999900, 999999999}]

\* clock value a is not later than b
NotLater(a, b) == a.sec < b.sec \/ (a.sec = b.sec /\ a.nsec <= b.nsec)

ClockInit == MainInit /\ ParseIdle /\ TimeIdle

\* QSTimeCtr QS::onGetTime(void): the monotonic clock is read and converted
onGetTime ==
    /\ \E c \in Clocks :
         /\ NotLater(tspec, c)
         /\ tspec' = c /\ time' = toTime(c)
    /\ prevTspec' = tspec /\ prevTime' = time
    /\ UNCHANGED <<mainVars, parseVars>>

ClockNext == onGetTime

ClockSpec == ClockInit /\ [][ClockNext]_vars

\* ---- the endpoint of QS::onStartup, as a function of its argument --------
\* a host name of n characters
HostOf(n) == [i \in 1..n |-> IF i % 2 = 1 THEN "a" ELSE "b"]

\* the host names tried: short ones, and ones around the buffer capacity
HostNames ==
    {HostOf(n) : n \in 0..MaxHost}
    \cup {HostOf(n) : n \in (HOSTNAME_SIZE - 1 - MaxOver)..(HOSTNAME_SIZE - 1 + MaxOver)}

\* what follows the host name in the argument
Tails == {<<>>, <<":">>, <<":", "7">>, <<":", "7", "0">>,
          <<":", "7", "0", "0", "0">>, <<":", "7", ":", "1">>, <<":", ":">>}

\* the arguments of QS::onStartup: nullptr or a string
Args ==
    {[null |-> TRUE, str |-> <<>>]}
    \cup {[null |-> FALSE, str |-> h \o t] : h \in HostNames, t \in Tails}

ParseInit ==
    /\ MainInit /\ TimeIdle
    /\ arg \in Args
    /\ hostName = <<>> /\ serviceName = <<>> /\ parseDone = FALSE

\* QS::onStartup extracts hostName and serviceName from arg
parseEndpoint ==
    /\ ~parseDone
    /\ LET e == endpoint(arg) IN
         hostName' = e.host /\ serviceName' = e.service
    /\ parseDone' = TRUE
    /\ UNCHANGED <<mainVars, arg, timeVars>>

\* another argument is taken
nextArg ==
    /\ parseDone
    /\ arg' \in Args
    /\ hostName' = <<>> /\ serviceName' = <<>> /\ parseDone' = FALSE
    /\ UNCHANGED <<mainVars, timeVars>>

ParseNext == parseEndpoint \/ nextArg

ParseSpec == ParseInit /\ [][ParseNext]_vars

\* the consumer thread is scheduled: a pump function that is running takes
\* its next step
PumpStep == getBlockStep \/ sendStep \/ wake

LiveSpec == Init /\ [][Next]_vars /\ WF_vars(PumpStep)

\* send() reports would-block once more on a chunk that has already met
\* MaxWouldBlock of them: the loop sleeps and retries as before, the count
\* stays at MaxWouldBlock
sendStalled ==
    /\ pc = "send"
    /\ nWouldBlock = MaxWouldBlock
    /\ afterSend(SOCKET_ERROR, "EWOULDBLOCK", nBytes) = "retry"
    /\ pc' = "sleep"                                 \* nanosleep(&c_timeout)
    /\ errno' = "EWOULDBLOCK" /\ nSent' = SOCKET_ERROR
    /\ callOff' = data /\ callLen' = nBytes
    /\ badIO' = (IF l_sock = INVALID_SOCKET THEN badIO + 1 ELSE badIO)
    /\ UNCHANGED <<sockVars, bufVars, critVars, op, fn, chunk, data, nBytes,
                   nWouldBlock, sockAtEntry, nGetBlock, fetched, accepted,
                   nDiag, lastDiag, flushRet, startRet, cands, connIdx,
                   openedNow, nClose, nRecv, nParse, rxVars, monVars,
                   pureVars>>

\* the program on a socket that may report would-block without end
StallNext == Next \/ sendStalled

StallPumpStep == PumpStep \/ sendStalled

StallSpec == Init /\ [][StallNext]_vars /\ WF_vars(StallPumpStep)

\* ---- properties ---------------------------------------------------------
IsPrefix(a, b) == Len(a) <= Len(b) /\ SubSeq(b, 1, Len(a)) = a

\* the invocation in progress, or the last one, ran QS::onFlush
InOnFlush == op \in {"onFlush", "onStartup"} /\ fn = "onFlush"

\* C1: during QS::onFlush the bytes accepted by the socket are at every moment
\* a prefix of the bytes handed out by getBlock, in fetch order, whatever
\* would-block results and short sends occur; when onFlush returns without a
\* hard send error the accepted bytes are all the bytes fetched.
C1_AcceptedIsPrefixOfFetched ==
    InOnFlush =>
        /\ IsPrefix(accepted, fetched)
        /\ (pc = "idle" /\ flushRet = "ok") => accepted = fetched

\* an onFlush that has fetched two chunks, met a would-block and a short send
\* on the second, and has bytes of both chunks accepted
C1_Witness ==
    /\ InOnFlush /\ pc = "send" /\ nGetBlock = 2
    /\ nWouldBlock > 0 /\ data > 0 /\ Len(accepted) >= 2
    /\ Len(accepted) < Len(fetched)

\* C2: within one invocation of QS::onFlush or QS_output, after a short send
\* of m bytes the next send() starts m bytes further with m bytes less, after
\* a would-block it has the same start and length, the remaining length stays
\* in 1..QS_TX_CHUNK and covers exactly the unsent bytes of the chunk, and
\* getBlock is called again only when no byte of the chunk is unsent.
C2_ResumesAtUnsentOffset ==
    /\ (pc = "send" /\ callLen > 0) =>
          IF nSent = SOCKET_ERROR
          THEN data = callOff /\ nBytes = callLen
          ELSE /\ nSent < callLen
               /\ data = callOff + nSent /\ nBytes = callLen - nSent
    /\ pc \in {"send", "sleep"} =>
          /\ nBytes \in 1..QS_TX_CHUNK
          /\ data + nBytes = Len(chunk)
    /\ pc = "send" => Len(fetched) - Len(accepted) = nBytes
    /\ pc = "getBlock" => accepted = fetched

\* the send() that follows a short send of one byte of a three-byte chunk
C2_Witness ==
    /\ pc = "send" /\ callLen = 3 /\ nSent = 1 /\ data = 1 /\ nBytes = 2

\* C3: when send() on a chunk has reported would-block and afterwards accepts
\* bytes, QS::onFlush comes to the fetch of the next chunk with every byte
\* fetched so far accepted, in order; only a hard send error ends the flush
\* before that.
C3_WouldBlockThenDelivered ==
    \A n \in 1..(MaxBytes + 1) :
        (InOnFlush /\ pc # "idle" /\ nWouldBlock > 0 /\ Len(fetched) = n)
            ~> \/ /\ InOnFlush /\ pc = "getBlock"
                  /\ Len(fetched) = n /\ accepted = fetched
               \/ pc = "idle" /\ flushRet = "sendError"

\* an onFlush asleep after MaxWouldBlock would-block results on one chunk
C3_Witness ==
    /\ InOnFlush /\ pc = "sleep" /\ nSent = SOCKET_ERROR
    /\ nWouldBlock = MaxWouldBlock /\ Len(chunk) >= 2

\* C4: a send() in QS::onFlush that fails with an error other than
\* EWOULDBLOCK/EAGAIN ends the invocation in that step: no further send() or
\* getBlock, nothing more consumed or accepted, and exactly one diagnostic.
C4_HardErrorAborts ==
    [][(pc = "send" /\ InOnFlush /\ errno' = "ECONNRESET") =>
          /\ pc' = "idle" /\ flushRet' = "sendError"
          /\ nDiag' = 1 /\ lastDiag' = "sending data over TCP"
          /\ nGetBlock' = nGetBlock /\ fetched' = fetched
          /\ accepted' = accepted /\ ring' = ring
          /\ UNCHANGED sockVars]_vars

\* an onFlush ended by a hard send error while the ring buffer held more
C4_Witness ==
    /\ op = "onFlush" /\ pc = "idle" /\ flushRet = "sendError"
    /\ nDiag = 1 /\ ring # <<>> /\ Len(accepted) < Len(fetched)

\* the consumer thread calls operation o in this step
Calls(o) == pc = "idle" /\ op' = o /\ nextByte' = nextByte

\* C5: QS::onFlush or QS_output called with l_sock = INVALID_SOCKET reports
\* "invalid TCP socket" and returns at once: the critical section is not
\* entered, getBlock is not called, the ring buffer keeps its bytes and no
\* send() is made.
C5_InvalidSocketNoEffect ==
    [][((Calls("onFlush") \/ Calls("QS_output")) /\ l_sock = INVALID_SOCKET) =>
          /\ pc' = "idle" /\ flushRet' = "invalid"
          /\ nDiag' = 1 /\ lastDiag' = "invalid TCP socket"
          /\ nGetBlock' = 0 /\ fetched' = <<>> /\ accepted' = <<>>
          /\ badIO' = 0
          /\ UNCHANGED <<sockVars, bufVars, critVars, rxVars>>]_vars

\* a pump call refused for the invalid socket while bytes wait in the buffer
C5_Witness ==
    /\ op \in {"onFlush", "QS_output"} /\ pc = "idle"
    /\ sockAtEntry = INVALID_SOCKET /\ flushRet = "invalid"
    /\ lastDiag = "invalid TCP socket" /\ Len(ring) >= 2

\* C6: no send() or recv() is ever made on INVALID_SOCKET, and a QS_rx_input
\* called with the handle invalid is reported and makes no recv().
C6_NoIOOnInvalidSocket ==
    /\ badIO = 0
    /\ (op = "QS_rx_input" /\ sockAtEntry = INVALID_SOCKET) =>
          nRecv = 0 /\ nDiag = 1

\* C7: at most one socket is opened and not yet closed, and it is the one held
\* in l_sock, after any sequence of onStartup and onCleanup calls.
C7_AtMostOneLiveSocket ==
    /\ Cardinality(openFds) <= 1
    /\ openFds # {} => openFds = {l_sock}

\* C8: QS::onCleanup leaves l_sock invalid and calls close() once when the
\* handle was valid and not at all when it was already invalid; no operation
\* ever calls close() on a descriptor that is not open.
C8_CleanupIdempotent ==
    /\ ~dblClose
    /\ l_sock # INVALID_SOCKET => l_sock \in openFds
    /\ op = "onCleanup" =>
          /\ l_sock = INVALID_SOCKET
          /\ nClose = (IF sockAtEntry = INVALID_SOCKET THEN 0 ELSE 1)

\* an onCleanup called after a startup, with the handle already invalid
C8_Witness ==
    /\ op = "onCleanup" /\ pc = "idle" /\ rxEnd # 0
    /\ sockAtEntry = INVALID_SOCKET /\ nClose = 0

\* candidate i admits both socket creation and connect
Connectable(i) == cands[i].sock /\ cands[i].conn

\* C9: when some resolved candidate admits socket creation and connect,
\* QS::onStartup ends its candidate loop connected to the first such one.
C9_ConnectsFirstGoodCandidate ==
    (op = "onStartup" /\ \E i \in 1..Len(cands) : Connectable(i)) =>
        /\ connIdx \in 1..Len(cands)
        /\ Connectable(connIdx)
        /\ \A j \in 1..(connIdx - 1) : ~Connectable(j)

\* C10: whenever QS::onStartup returns false a diagnostic has been reported,
\* l_sock is invalid and no socket opened by that call is left open.
C10_FailedStartupLeavesInvalid ==
    (op = "onStartup" /\ startRet = "false") =>
        /\ nDiag >= 1
        /\ l_sock = INVALID_SOCKET
        /\ openedNow = {}

\* the pump is in its backoff sleep after a would-block result of send()
BackingOff == pc = "sleep" /\ errno = "EWOULDBLOCK"

\* C11 as stated: every invocation of QS::onFlush eventually returns, even
\* when send() reports would-block on every attempt.
C11_FlushAlwaysReturns == (InOnFlush /\ pc # "idle") ~> (pc = "idle")

\* C11: the retry loop of QS::onFlush has no retry limit.  With finitely many
\* bytes produced, an invocation that never returns is one in which send()
\* reports would-block again and again; whenever send() stops doing so the
\* flush returns.
C11_ReturnsUnlessWouldBlockForever ==
    (<>[](InOnFlush /\ pc # "idle")) => ([]<>BackingOff)

\* onFlush is backing off after more would-block results on one chunk than
\* any fixed number the socket was assumed to give
C11_Witness ==
    /\ InOnFlush /\ BackingOff
    /\ nWouldBlock = MaxWouldBlock /\ callLen = nBytes /\ accepted # <<>>

\* C12: in QS::onFlush and QS_output getBlock is called only while the
\* critical section is held, and every send() and every backoff sleep happens
\* with it released, so that a producer with a byte to append can enter its
\* own critical section while the pump is sending or backing off.
C12_IOOutsideCriticalSection ==
    /\ pc = "getBlock" => crit
    /\ pc \in {"send", "sleep"} => ~crit
    /\ (pc \in {"send", "sleep"} /\ nextByte <= MaxBytes) => ENABLED produce

\* QS_output is backing off on its chunk, the critical section is free and
\* the producer can append behind the bytes that wait in the ring buffer
C12_Witness ==
    /\ fn = "QS_output" /\ pc = "sleep" /\ nGetBlock = 1
    /\ ~crit /\ ENABLED produce
    /\ ring # <<>> /\ chunk # <<>> /\ ring[1] = chunk[Len(chunk)] + 1

\* C20: the entries and exits of the critical section in QS::onFlush and
\* QS_output alternate (never entered while held, never exited while not
\* held), and on every return path - ring buffer empty, normal completion,
\* hard send error, invalid socket - it is not held when the function returns.
C20_CriticalSectionBalanced ==
    /\ ~critErr
    /\ pc = "idle" => ~crit
    /\ (pc = "idle" /\ flushRet \in {"ok", "sendError", "invalid"}) =>
           crit = FALSE /\ (nGetBlock = 0 <=> flushRet = "invalid")

\* QS::onFlush has entered the critical section twice, left it twice and
\* returned on a hard send error with the section free
C20_Witness ==
    /\ op = "onFlush" /\ pc = "idle" /\ flushRet = "sendError"
    /\ nGetBlock = 2 /\ ~crit /\ ~critErr

\* C15: QS_rx_input makes exactly one recv() call; if it returns n > 0 the
\* tail of the receive window is set to 0 and its head to n before rxParse is
\* invoked, exactly once; if it returns zero or a negative value the cursors
\* are left unchanged, rxParse is not invoked and no error is reported.
C15_OneRecvThenParse ==
    [][Calls("QS_rx_input") =>
         /\ nRecv' = 1 /\ nDiag' = 0 /\ lastDiag' = "none"
         /\ IF status' > 0
            THEN /\ rxTail' = 0 /\ rxHead' = status'
                 /\ nParse' = 1 /\ parseSpan' = <<0, status'>>
            ELSE /\ UNCHANGED <<rxHead, rxTail>>
                 /\ nParse' = 0 /\ parseSpan' = <<>>]_vars

\* a QS_rx_input whose recv() returned a byte has run rxParse on <<0, 1>>,
\* and the QS_rx_input after it, whose recv() returned no data, has left the
\* window as it was
C15_Witness ==
    /\ op = "QS_rx_input" /\ pc = "idle" /\ l_sock # INVALID_SOCKET
    /\ nRecv = 1 /\ status = 0 /\ nParse = 0
    /\ rxHead = 1 /\ rxTail = 0

\* the part of the current chunk that send() has not accepted yet
Unsent ==
    IF pc = "send" THEN Bytes(chunk, data, nBytes)
    ELSE IF pc = "sleep" /\ nSent # SOCKET_ERROR
    THEN Bytes(chunk, data + nSent, nBytes - nSent)
    ELSE IF pc = "sleep" THEN Bytes(chunk, data, nBytes)
    ELSE <<>>

\* C17: QS_output handles exactly one chunk per call: it calls getBlock once,
\* sends that chunk completely unless a hard error aborts it, and returns.
\* Whatever mix of QS_output and QS::onFlush calls drains the ring buffer, the
\* socket receives the bytes produced since the last loss in production
\* order, each once: repeated QS_output calls deliver what one onFlush does.
C17_OutputIsOneChunkOfFlush ==
    /\ fn = "QS_output" =>
          /\ nGetBlock <= 1
          /\ pc \in {"send", "sleep"} => (nGetBlock = 1 /\ fetched = chunk)
          /\ IsPrefix(accepted, fetched)
          /\ (pc = "idle" /\ flushRet = "ok") =>
                 (nGetBlock = 1 /\ accepted = fetched)
    /\ stream \o Unsent \o ring = Run(lostMax + 1, nextByte - 1)

\* with no byte lost, the ring buffer has been drained: the last QS_output
\* found it empty and the socket has received every byte produced, in order
C17_Witness ==
    /\ op = "QS_output" /\ pc = "idle" /\ flushRet = "ok"
    /\ nGetBlock = 1 /\ fetched = <<>> /\ ring = <<>>
    /\ lostMax = 0 /\ stream = Run(1, MaxBytes)

\* the bytes that are, or can still be, handed to send()
Sendable == Unsent \o ring

\* C19: a hard send error in QS::onFlush or QS_output makes the function
\* return with the socket handle unchanged, valid and open, so that the next
\* flush passes the check of the handle; the unsent remainder of the chunk is
\* dropped, and no byte up to the last one dropped is accepted by the socket,
\* waiting in the ring buffer or part of a chunk afterwards.
C19_HardErrorKeepsSocketLosesRemainder ==
    [][/\ (errno # "ECONNRESET" /\ errno' = "ECONNRESET") =>
            /\ pc = "send" /\ pc' = "idle" /\ flushRet' = "sendError"
            /\ UNCHANGED sockVars
            /\ l_sock' # INVALID_SOCKET /\ l_sock' \in openFds'
            /\ enterPump(l_sock') # "invalid"
            /\ Unsent # <<>> /\ Unsent' = <<>>
            /\ lostMax' = Unsent[Len(Unsent)]
       /\ \A i \in 1..Len(stream') : stream'[i] > lostMax'
       /\ \A i \in 1..Len(Sendable') : Sendable'[i] > lostMax'
       /\ \A i \in 1..Len(accepted') :
             accepted'[i] > lostMax' \/ flushRet' = "sendError"]_vars

\* QS::onFlush has returned on a hard send error after byte 1 of the chunk
\* <<1, 2>> was accepted: the socket is still open, byte 2 is dropped and
\* byte 3 waits in the ring buffer for the next flush
C19_Witness ==
    /\ op = "onFlush" /\ pc = "idle" /\ flushRet = "sendError"
    /\ errno = "ECONNRESET" /\ l_sock \in openFds
    /\ fetched = <<1, 2>> /\ accepted = <<1>> /\ lostMax = 2
    /\ ring = <<3>>

\* C18: when QS::onStartup returns true the socket handle is valid, open and
\* connected to a candidate, the socket is in non-blocking mode, and one
\* QS::onFlush has run on the configured socket before the return; failures
\* of the two setsockopt() calls and a hard send error in that flush leave
\* the result true.
C18_StartupSuccess ==
    /\ startRet = "true" =>
          /\ op = "onStartup" /\ pc = "idle"
          /\ l_sock # INVALID_SOCKET /\ l_sock \in openFds /\ nonblock
          /\ connIdx \in 1..Len(cands) /\ Connectable(connIdx)
          /\ fn = "onFlush" /\ nGetBlock >= 1
          /\ flushRet \in {"ok", "sendError"}
    /\ (op = "onStartup" /\ pc # "idle") =>
          /\ startRet = "none" /\ fn = "onFlush"
          /\ l_sock # INVALID_SOCKET /\ nonblock
    /\ (op = "onStartup" /\ pc = "idle" /\ fn = "onFlush") =>
          startRet = "true"
    /\ (op = "onStartup" /\ optFail) => startRet # "false"

\* QS::onStartup has returned true although both setsockopt() calls failed
\* and its flush ended on a hard send error
C18_Witness ==
    /\ op = "onStartup" /\ startRet = "true"
    /\ optFail /\ flushRet = "sendError" /\ nonblock

\* the place of the first ':' of str (0: none)
FirstColon(str) ==
    IF \E i \in 1..Len(str) : str[i] = ":"
    THEN CHOOSE i \in 1..Len(str) :
            str[i] = ":" /\ \A j \in 1..(i - 1) : str[j] # ":"
    ELSE 0

\* the host part of str: the text before its first ':', or all of it
HostPart(str) ==
    IF FirstColon(str) = 0 THEN str ELSE SubSeq(str, 1, FirstColon(str) - 1)

\* the service part of str: the text after its first ':', or the default
ServicePart(str) ==
    IF FirstColon(str) = 0 THEN DefaultService
    ELSE SubSeq(str, FirstColon(str) + 1, Len(str))

\* C13: for every argument whose host part has at most 127 characters the
\* host is the text before the first ':' (the whole string if there is none)
\* and the service is the text after the first ':' if there is one and "6601"
\* otherwise; a null argument gives host "localhost" and service "6601".
C13_EndpointParsed ==
    parseDone =>
        IF arg.null
        THEN hostName = DefaultHost /\ serviceName = DefaultService
        ELSE Len(HostPart(arg.str)) <= HOSTNAME_SIZE - 1 =>
                /\ hostName = HostPart(arg.str)
                /\ serviceName = ServicePart(arg.str)

\* a host name that just fits the buffer, followed by ":70", is parsed
C13_Witness ==
    /\ parseDone /\ ~arg.null
    /\ Len(hostName) = HOSTNAME_SIZE - 1 /\ hostName = HostPart(arg.str)
    /\ serviceName = <<"7", "0">>

\* C14: for an argument whose host part is longer than the host buffer the
\* host is cut to the 127 characters the buffer holds and the service is
\* still the text after the ':' of the argument, not the default.
C14_LongHostKeepsService ==
    (parseDone /\ ~arg.null /\ Len(HostPart(arg.str)) > HOSTNAME_SIZE - 1) =>
        /\ hostName = SubSeq(arg.str, 1, HOSTNAME_SIZE - 1)
        /\ serviceName = ServicePart(arg.str)

\* the clock value ts in units of 0.1 microsecond, and the number of times
\* QSTimeCtr has wrapped at ts
Ticks(ts) == ts.sec * TICKS_PER_SEC + ts.nsec \div 100
Wraps(ts) == Ticks(ts) \div TimeModulus

\* C16 as stated: successive calls of QS::onGetTime return a non-decreasing
\* sequence of values, the truncation to the width of QSTimeCtr included.
C16_TimeNonDecreasing == prevTime # -1 => prevTime <= time

\* C16: two successive calls of QS::onGetTime return v1 <= v2 when QSTimeCtr
\* has not wrapped between the two reads of the clock; the value returned is
\* the count of 0.1 microsecond units modulo the number of QSTimeCtr values,
\* so it falls back at every wrap.
C16_NonDecreasingBetweenWraps ==
    /\ time # -1 => time = Ticks(tspec) % TimeModulus
    /\ (prevTime # -1 /\ Wraps(prevTspec) = Wraps(tspec)) => prevTime <= time
    /\ (prevTime # -1 /\ Wraps(prevTspec) + 1 = Wraps(tspec)
                      /\ Ticks(tspec) - Ticks(prevTspec) < TimeModulus)
          => time < prevTime

\* two calls after the first wrap, the second one later by at least one unit
C16_Witness ==
    /\ prevTime # -1 /\ Wraps(prevTspec) = 1 /\ Wraps(tspec) = 1
    /\ prevTime < time

====
